---- MODULE Spec2Model ----
(***************************************************************************)
(* Model of the Zendesk File Renamer background service worker             *)
(* (src/unnamed/part_000) with the constants of src/src/utils/constants.js *)
(* and the part of the content script (src/src/content.js) that answers    *)
(* GET_TICKET and sends TICKET_UPDATE.                                     *)
(*                                                                         *)
(* A JavaScript string is a sequence of one-character strings; null and    *)
(* undefined are the one-element sequence Null, whose element is not a     *)
(* character.  A tab id is an integer; 0 stands for an absent tab id       *)
(* (undefined), which every test of the code treats like 0.                *)
(***************************************************************************)
EXTENDS Integers, Sequences, FiniteSets, TLC

\* ------------------------------------------------------------------ bounds
NumTabs == 2
NumDownloads == 1
MaxNameLen == 2
MaxPathLen == 3
MaxClicks == 2
NumOverlapping == 2
MaxChanges == 2

Tabs == 1..NumTabs
Downloads == 1..NumDownloads

\* ------------------------------------------------------- values and strings
Null == <<"null">>
Fail == <<"error">>

Truthy(v) == v # Null /\ v # <<>>

Max(a, b) == IF a >= b THEN a ELSE b

StartsWith(s, p) == Len(s) >= Len(p) /\ SubSeq(s, 1, Len(p)) = p

\* 1-based position of the first occurrence of pat in s, 0 when there is none
IndexOf(s, pat) ==
  LET hits == {i \in 1..(Len(s) - Len(pat) + 1) : SubSeq(s, i, i + Len(pat) - 1) = pat}
  IN  IF hits = {} THEN 0 ELSE CHOOSE i \in hits : \A j \in hits : i <= j

\* 1-based position of the last occurrence of the character c in s, 0 when
\* there is none (String.prototype.lastIndexOf, shifted by one)
LastIndexOf(s, c) ==
  LET hits == {i \in 1..Len(s) : s[i] = c}
  IN  IF hits = {} THEN 0 ELSE CHOOSE i \in hits : \A j \in hits : i >= j

IsDigit(c) == c \in {"0", "1", "2", "3", "4", "5", "6", "7", "8", "9"}
IsSpace(c) == c \in {" ", "\t", "\n", "\r"}

\* The replacement patterns String.prototype.replace expands in a replacement
\* string when the pattern is a string: $$, $&, $` and $'
RECURSIVE ExpandReplacement(_, _, _, _)
ExpandReplacement(rep, matched, before, after) ==
  IF rep = <<>> THEN <<>>
  ELSE IF rep[1] = "$" /\ Len(rep) >= 2 /\ rep[2] \in {"$", "&", "`", "'"}
       THEN (CASE rep[2] = "$" -> <<"$">>
               [] rep[2] = "&" -> matched
               [] rep[2] = "`" -> before
               [] rep[2] = "'" -> after)
            \o ExpandReplacement(SubSeq(rep, 3, Len(rep)), matched, before, after)
       ELSE <<rep[1]>> \o ExpandReplacement(Tail(rep), matched, before, after)

\* s.replace(pat, rep) for a string pattern: the first occurrence only
Replace(s, pat, rep) ==
  LET i == IndexOf(s, pat)
  IN  IF i = 0 THEN s
      ELSE LET before == SubSeq(s, 1, i - 1)
               after  == SubSeq(s, i + Len(pat), Len(s))
           IN  before \o ExpandReplacement(rep, pat, before, after) \o after

\* ------------------------------------------------------------- constants.js
TicketSlot == <<"{", "t", "i", "c", "k", "e", "t", "}">>
FilenameSlot == <<"{", "f", "i", "l", "e", "n", "a", "m", "e", "}">>

FILENAME_FORMATS ==
  << [id |-> "prefix_underscore",
      template |-> <<"Z", "D", "-">> \o TicketSlot \o <<"_">> \o FilenameSlot],
     [id |-> "bracket",
      template |-> <<"[">> \o TicketSlot \o <<"]", " ">> \o FilenameSlot],
     [id |-> "minimal",
      template |-> TicketSlot \o <<"-">> \o FilenameSlot] >>

DEFAULT_SETTINGS == [enabled |-> "true", format |-> "prefix_underscore"]

\* -------------------------------------------------------- pure functions
\* a lookup that falls back to the last template
getFormatTemplate_LastFallback(formatId) ==
  LET hits == {i \in 1..Len(FILENAME_FORMATS) : FILENAME_FORMATS[i].id = formatId}
  IN  IF hits # {}
      THEN FILENAME_FORMATS[CHOOSE i \in hits : \A j \in hits : i <= j].template
      ELSE FILENAME_FORMATS[Len(FILENAME_FORMATS)].template

getFormatTemplate(formatId) ==
  LET hits == {i \in 1..Len(FILENAME_FORMATS) : FILENAME_FORMATS[i].id = formatId}
  IN  IF hits # {}
      THEN FILENAME_FORMATS[CHOOSE i \in hits : \A j \in hits : i <= j].template
      ELSE FILENAME_FORMATS[1].template

formatFilename(originalFilename, ticketId, formatTemplate) ==
  Replace(Replace(formatTemplate, TicketSlot, ticketId), FilenameSlot, originalFilename)

\* fullPath.split(/[/\\]/): the parts between the separators
RECURSIVE SplitPath(_)
SplitPath(s) ==
  LET seps == {i \in 1..Len(s) : s[i] \in {"/", "\\"}}
  IN  IF seps = {} THEN <<s>>
      ELSE LET i == CHOOSE k \in seps : \A j \in seps : k <= j
           IN  <<SubSeq(s, 1, i - 1)>> \o SplitPath(SubSeq(s, i + 1, Len(s)))

\* a base name cut at the last forward slash only
extractFilename_ForwardOnly(fullPath) ==
  SubSeq(fullPath, LastIndexOf(fullPath, "/") + 1, Len(fullPath))

extractFilename(fullPath) ==
  LET parts == SplitPath(fullPath) IN parts[Len(parts)]

\* a reconstruction that knows the forward slash only
reconstructPath_ForwardOnly(originalPath, newFilename) ==
  LET lastSlash == LastIndexOf(originalPath, "/")
  IN  IF lastSlash = 0 THEN newFilename
      ELSE SubSeq(originalPath, 1, lastSlash) \o newFilename

reconstructPath(originalPath, newFilename) ==
  LET lastSlash == Max(LastIndexOf(originalPath, "/"), LastIndexOf(originalPath, "\\"))
  IN  IF lastSlash = 0 THEN newFilename
      ELSE SubSeq(originalPath, 1, lastSlash) \o newFilename

\* /^\[\d+\]\s/.test(name)
MatchesBracketShape(name) ==
  /\ Len(name) >= 4
  /\ name[1] = "["
  /\ \E k \in 3..(Len(name) - 1) :
       /\ \A i \in 2..(k - 1) : IsDigit(name[i])
       /\ name[k] = "]"
       /\ IsSpace(name[k + 1])

\* an already-renamed check that knows the ZD- prefix only
isAlreadyRenamed_PrefixOnly(originalFilename) ==
  StartsWith(originalFilename, <<"Z", "D", "-">>)

\* lines 408-409
isAlreadyRenamed(originalFilename) ==
  \/ StartsWith(originalFilename, <<"Z", "D", "-">>)
  \/ MatchesBracketShape(originalFilename)

\* hostname of a URL as its sequence of labels; <<>> is a string new URL()
\* rejects (the empty referrer)
EndsWithDomain(hostname, domain) ==
  /\ Len(hostname) > Len(domain)
  /\ SubSeq(hostname, Len(hostname) - Len(domain) + 1, Len(hostname)) = domain

isZendeskUrl(url) ==
  IF url = <<>> THEN FALSE
  ELSE \/ EndsWithDomain(url, <<"zendesk", "com">>)
       \/ EndsWithDomain(url, <<"zdusercontent", "com">>)
       \/ EndsWithDomain(url, <<"zdassets", "com">>)
       \/ url = <<"localhost">>


\* ------------------------------------------------------------------ state
VARIABLES
  tabTicketMap,   \* the Map of tab id -> ticket id (part_000:40)
  tabs,           \* the browser's tabs: open?, hostname of the URL, the ticket the page
                  \* shows and lastKnownTicketId of its content script
  dl,             \* per download event: the closure of createSafeSuggest and the position
                  \* and locals of handleDownloadFilename; via is the step of the
                  \* resolution that supplied ticketId, read is how the settings
                  \* read ended and listed is what the enumeration of method 2
                  \* gave (history)
  lastEvent,      \* history: per tab, the last lifecycle event that applies to its entry
  leftTicket,     \* history: per tab, the ticket it showed before it left the recognized domains
  fmt             \* inputs and outputs of the pure functions (FormatSpec)

vars == <<tabTicketMap, tabs, dl, lastEvent, leftTicket, fmt>>

\* ------------------------------------------------------------ input domains
Tickets == {<<"1">>, <<"2">>}
PageTickets == Tickets \cup {Null}

\* what getCurrentTicketId can give besides: the empty or non-numeric value
\* of a data-ticket-id attribute (content.js:104-106)
AnyTickets == PageTickets \cup {<<>>, <<"x">>}

ZD == <<"acme", "zendesk", "com">>
EXAMPLE == <<"example", "com">>
TabUrls == {ZD, EXAMPLE}
Referrers == {ZD, EXAMPLE}

TabIds == Tabs \cup {0, -1}

Filenames ==
  { <<"d", "/", "a">>,
    <<"Z", "D", "-", "a">>,
    <<"d", "\\", "[", "1", "]", " ", "a">>,
    Null }

Enabled == {"true", "false", "undefined"}
FormatIds == {"prefix_underscore", "bracket", "minimal", "bogus", "undefined"}
StoredFormats == {"bracket", "bogus", "undefined"}

SettingsOutcomes ==
  {[kind |-> "error", enabled |-> "undefined", format |-> "undefined"],
   [kind |-> "absent", enabled |-> "undefined", format |-> "undefined"]}
  \cup [kind : {"record"}, enabled : Enabled, format : StoredFormats]

\* -------------------------------------------------------------- the Map
MapHas(m, k) == k \in DOMAIN m
MapSet(m, k, v) == [x \in DOMAIN m \cup {k} |-> IF x = k THEN v ELSE m[x]]
MapDelete(m, k) == [x \in DOMAIN m \ {k} |-> m[x]]
EmptyMap == [x \in {} |-> Null]
Lookup(m, k) == IF MapHas(m, k) THEN m[k] ELSE Null

\* ------------------------------------------------------ lifecycle handlers
\* a message handler that stores whatever ticket id the message carries
handleMessage_NoCheck(m, message, senderTabId) ==
  IF message.type = "TICKET_UPDATE" /\ senderTabId # 0
  THEN MapSet(m, senderTabId, message.ticketId)
  ELSE m

handleMessage(m, message, senderTabId) ==
  IF message.type = "TICKET_UPDATE" /\ senderTabId # 0
  THEN IF Truthy(message.ticketId)
       THEN MapSet(m, senderTabId, message.ticketId)
       ELSE MapDelete(m, senderTabId)
  ELSE m

handleTabRemoved(m, tabId) == MapDelete(m, tabId)

\* a tab-updated handler that clears the entry at every URL change
handleTabUpdated_AnyUrl(m, tabId, changeInfoUrl) ==
  IF ~Truthy(changeInfoUrl) THEN m ELSE MapDelete(m, tabId)

\* a tab-updated handler that never clears the entry
handleTabUpdated_Keep(m, tabId, changeInfoUrl) == m

handleTabUpdated(m, tabId, changeInfoUrl) ==
  IF ~Truthy(changeInfoUrl) THEN m
  ELSE IF ~isZendeskUrl(changeInfoUrl) THEN MapDelete(m, tabId)
  ELSE m

\* the content script runs on the pages the manifest matches, *://*.zendesk.com/*
MatchesZendeskPattern(url) ==
  /\ Len(url) >= 2
  /\ SubSeq(url, Len(url) - 1, Len(url)) = <<"zendesk", "com">>

HasContentScript(t) == tabs[t].open /\ MatchesZendeskPattern(tabs[t].url)

ClosedTab == [open |-> FALSE, url |-> <<>>, ticket |-> Null, last |-> Null]

NoEvent == [kind |-> "none", ticketId |-> Null]

\* safeSuggest without its latch
safeSuggest_NoLatch(f, options) ==
  [f EXCEPT !.called = TRUE, !.timer = FALSE, !.calls = @ + 1, !.suggested = options]

\* -------------------------------------------------- createSafeSuggest
\* suggest() without options (keep the original filename) is Null
safeSuggest(f, options) ==
  IF f.called THEN f
  ELSE [f EXCEPT !.called = TRUE, !.timer = FALSE,
                 !.calls = @ + 1, !.suggested = options]

IdleFlow ==
  [pc |-> "idle", tabId |-> 0, referrer |-> <<>>, filename |-> Null,
   enabled |-> "undefined", format |-> "undefined",
   ticketId |-> Null, src |-> 0, target |-> 0, snap |-> Null, cands |-> <<>>,
   called |-> FALSE, timer |-> FALSE, calls |-> 0, suggested |-> Null,
   timedOut |-> FALSE, queried |-> FALSE, stale |-> Null,
   via |-> "none", read |-> "none", listed |-> <<>>]

\* ------------------------------------------------ handleDownloadFilename
\* a settings read without the default record
getSettings_NoDefault(outcome) ==
  [enabled |-> outcome.enabled, format |-> outcome.format]

getSettings(outcome) ==
  IF outcome.kind = "record"
  THEN [enabled |-> outcome.enabled, format |-> outcome.format]
  ELSE DEFAULT_SETTINGS

\* a decision that ignores the enabled flag
Disabled_Never(settings) == FALSE

\* !settings.enabled
Disabled(settings) == settings.enabled # "true"

\* !isZendeskUrl(referrerUrl) && !tabId
NotFromZendesk(referrerUrl, tabId) == ~isZendeskUrl(referrerUrl) /\ tabId = 0

\* tabId && tabId !== -1
RealTab(tabId) == tabId # 0 /\ tabId # -1

\* a resolver that never consults the Map
CacheHit_Never(m, tabId) == FALSE

\* tabTicketMap.has(tabId) in getTicketIdForTab
CacheHit(m, tabId) == MapHas(m, tabId)

\* response && response.ticketId
Answered(outcome) == outcome # Fail /\ Truthy(outcome)

\* what the content script of tab t answers to GET_TICKET now; Fail when no
\* content script receives the message
Answer(t) == IF t \in Tabs /\ HasContentScript(t) THEN tabs[t].ticket ELSE Fail

SendMessage(f, t, pc) ==
  [f EXCEPT !.pc = pc, !.target = t, !.snap = Answer(t), !.queried = TRUE]

\* a chrome.tabs.query is issued and the flow suspends at pc
QueryTabs(f, pc) ==
  [f EXCEPT !.pc = pc, !.target = 0, !.snap = Null, !.queried = TRUE]

\* a decision that goes on without a ticket
Unresolved_Never(ticketId) == FALSE

\* !ticketId
Unresolved(ticketId) == ~Truthy(ticketId)

Return(f) == [f EXCEPT !.pc = "returned", !.target = 0, !.snap = Null, !.cands = <<>>]

Throw(f) == [f EXCEPT !.pc = "threw", !.target = 0, !.snap = Null, !.cands = <<>>]

\* lines 395-429: the decision once resolution has ended
Decide(f) ==
  IF Unresolved(f.ticketId) THEN Return(safeSuggest(f, Null))
  ELSE IF f.filename = Null THEN Throw(f)
  ELSE LET originalFilename == extractFilename(f.filename)
       IN  IF isAlreadyRenamed(originalFilename)
           THEN Return(safeSuggest(f, Null))
           ELSE LET formatTemplate == getFormatTemplate(f.format)
                    newFilename == formatFilename(originalFilename, f.ticketId, formatTemplate)
                IN  Return(safeSuggest(f, reconstructPath(f.filename, newFilename)))

\* a fallback without method 2
AfterMethod1_NoEnumeration(f) == Decide(f)

\* line 355: method 2 runs when method 1 left the ticket unresolved
AfterMethod1(f) ==
  IF Unresolved(f.ticketId) THEN QueryTabs(f, "allQuery")
  ELSE Decide(f)

\* a fallback that does not look at the referrer
Fallback_AnyReferrer(f) ==
  IF Unresolved(f.ticketId) THEN QueryTabs(f, "activeQuery")
  ELSE Decide(f)

\* line 323: the fallback methods run when the ticket is unresolved and the
\* referrer is a Zendesk URL
Fallback(f) ==
  IF Unresolved(f.ticketId) /\ isZendeskUrl(f.referrer) THEN QueryTabs(f, "activeQuery")
  ELSE Decide(f)

\* lines 289-320, after the settings read has completed
AfterSettings(f, m, settings) ==
  LET g == [f EXCEPT !.enabled = settings.enabled, !.format = settings.format]
  IN  IF Disabled(settings) THEN Return(safeSuggest(g, Null))
      ELSE IF NotFromZendesk(g.referrer, g.tabId) THEN Return(safeSuggest(g, Null))
      ELSE IF RealTab(g.tabId)
           THEN IF CacheHit(m, g.tabId)
                THEN Fallback([g EXCEPT !.ticketId = m[g.tabId], !.src = g.tabId,
                                         !.via = "registry"])
                ELSE SendMessage(g, g.tabId, "directMsg")
           ELSE Fallback(g)

\* method 2 taking the last cached tab of the enumeration
AfterEnumeration_LastCached(f, m, zendeskTabs) ==
  LET cached == {i \in 1..Len(zendeskTabs) : MapHas(m, zendeskTabs[i])}
      g == [f EXCEPT !.listed = zendeskTabs]
  IN  IF cached # {}
      THEN LET i == CHOOSE k \in cached : \A j \in cached : k >= j
           IN  Decide([g EXCEPT !.ticketId = m[zendeskTabs[i]], !.src = zendeskTabs[i],
                                  !.via = "enumeration"])
      ELSE IF zendeskTabs = <<>> THEN Decide(g)
      ELSE SendMessage([g EXCEPT !.cands = zendeskTabs], zendeskTabs[1], "candMsg")

\* lines 362-388 once the enumeration has answered
AfterEnumeration(f, m, zendeskTabs) ==
  LET cached == {i \in 1..Len(zendeskTabs) : MapHas(m, zendeskTabs[i])}
      g == [f EXCEPT !.listed = zendeskTabs]
  IN  IF cached # {}
      THEN LET i == CHOOSE k \in cached : \A j \in cached : k <= j
           IN  Decide([g EXCEPT !.ticketId = m[zendeskTabs[i]], !.src = zendeskTabs[i],
                                  !.via = "enumeration"])
      ELSE IF zendeskTabs = <<>> THEN Decide(g)
      ELSE SendMessage([g EXCEPT !.cands = zendeskTabs], zendeskTabs[1], "candMsg")

\* the orders in which tabs.query can list the tabs of set S
Orders(S) ==
  {q \in UNION {[1..n -> S] : n \in {Cardinality(S)}} :
     \A i, j \in 1..Len(q) : i # j => q[i] # q[j]}

Free(d) ==
  dl[d].pc \in {"idle", "returned", "dead"} \/ (dl[d].pc = "threw" /\ ~dl[d].timer)

\* ----------------------------------------------------------------- actions
\* chrome.downloads.onDeterminingFilename: createSafeSuggest arms the timer
\* and handleDownloadFilename suspends at the settings read
StartDownload(d, tabId, referrer, filename) ==
  /\ Free(d)
  /\ tabId \in Tabs => tabs[tabId].open
  /\ dl' = [dl EXCEPT ![d] =
              [IdleFlow EXCEPT !.pc = "getSettings", !.timer = TRUE,
                               !.tabId = tabId, !.referrer = referrer,
                               !.filename = filename,
                               !.stale = IF tabId \in Tabs THEN leftTicket[tabId] ELSE Null]]
  /\ UNCHANGED <<tabTicketMap, tabs, lastEvent, leftTicket, fmt>>

\* a timer callback that does not invoke the callback
TimerFires_NoSuggest(d) ==
  /\ dl[d].timer
  /\ dl' = [dl EXCEPT ![d].timer = FALSE]
  /\ UNCHANGED <<tabTicketMap, tabs, lastEvent, leftTicket, fmt>>

\* a timer callback whose latch is one flag for all download events
TimerFires_SharedLatch(d) ==
  /\ dl[d].timer
  /\ dl' = [e \in DOMAIN dl |->
              IF e # d THEN [dl[e] EXCEPT !.called = TRUE]
              ELSE IF ~dl[d].called
              THEN [safeSuggest(dl[d], Null) EXCEPT !.timedOut = TRUE, !.timer = FALSE]
              ELSE [dl[d] EXCEPT !.timer = FALSE]]
  /\ UNCHANGED <<tabTicketMap, tabs, lastEvent, leftTicket, fmt>>

\* the setTimeout callback of createSafeSuggest
TimerFires(d) ==
  /\ dl[d].timer
  /\ dl' = [dl EXCEPT ![d] =
              IF ~dl[d].called
              THEN [safeSuggest(dl[d], Null) EXCEPT !.timedOut = TRUE, !.timer = FALSE]
              ELSE [dl[d] EXCEPT !.timer = FALSE]]
  /\ UNCHANGED <<tabTicketMap, tabs, lastEvent, leftTicket, fmt>>

SettingsLoaded(d, outcome) ==
  /\ dl[d].pc = "getSettings"
  /\ dl' = [dl EXCEPT ![d] = AfterSettings([dl[d] EXCEPT !.read = outcome.kind],
                                            tabTicketMap, getSettings(outcome))]
  /\ UNCHANGED <<tabTicketMap, tabs, lastEvent, leftTicket, fmt>>

\* getTicketIdForTab without the cache-fill of line 213
DirectResponse_NoFill(d, outcome) ==
  /\ dl[d].pc = "directMsg"
  /\ outcome \in {Fail, dl[d].snap}
  /\ dl' = [dl EXCEPT ![d] =
              IF Answered(outcome)
              THEN Fallback([dl[d] EXCEPT !.ticketId = outcome, !.src = dl[d].tabId,
                                          !.via = "direct"])
              ELSE Fallback(dl[d])]
  /\ UNCHANGED <<tabTicketMap, tabs, lastEvent, leftTicket, fmt>>

\* getTicketIdForTab storing whatever the content script answers
DirectResponse_FillAny(d, outcome) ==
  /\ dl[d].pc = "directMsg"
  /\ outcome \in {Fail, dl[d].snap}
  /\ IF outcome # Fail
     THEN /\ tabTicketMap' = MapSet(tabTicketMap, dl[d].tabId, outcome)
          /\ dl' = [dl EXCEPT ![d] =
                      Fallback([dl[d] EXCEPT !.ticketId = outcome, !.src = dl[d].tabId,
                                             !.via = "direct"])]
     ELSE /\ tabTicketMap' = tabTicketMap
          /\ dl' = [dl EXCEPT ![d] = Fallback(dl[d])]
  /\ UNCHANGED <<tabs, lastEvent, leftTicket, fmt>>

\* getTicketIdForTab resumes with the response of the download's own tab
DirectResponse(d, outcome) ==
  /\ dl[d].pc = "directMsg"
  /\ outcome \in {Fail, dl[d].snap}
  /\ IF Answered(outcome)
     THEN /\ tabTicketMap' = MapSet(tabTicketMap, dl[d].tabId, outcome)
          /\ dl' = [dl EXCEPT ![d] =
                      Fallback([dl[d] EXCEPT !.ticketId = outcome, !.src = dl[d].tabId,
                                             !.via = "direct"])]
     ELSE /\ tabTicketMap' = tabTicketMap
          /\ dl' = [dl EXCEPT ![d] = Fallback(dl[d])]
  /\ UNCHANGED <<tabs, lastEvent, leftTicket, fmt>>

\* method 1 without the test of the active tab's URL
ActiveQueryResult_AnyUrl(d, active) ==
  /\ dl[d].pc = "activeQuery"
  /\ active \in Tabs => tabs[active].open
  /\ dl' = [dl EXCEPT ![d] =
              IF active \in Tabs
              THEN IF MapHas(tabTicketMap, active)
                   THEN AfterMethod1([dl[d] EXCEPT !.ticketId = tabTicketMap[active],
                                                   !.src = active, !.via = "active"])
                   ELSE SendMessage(dl[d], active, "activeMsg")
              ELSE AfterMethod1(dl[d])]
  /\ UNCHANGED <<tabTicketMap, tabs, lastEvent, leftTicket, fmt>>

\* method 1: chrome.tabs.query({active, currentWindow}) answers; active is the
\* active tab, 0 when there is none, -1 when the query is rejected
ActiveQueryResult(d, active) ==
  /\ dl[d].pc = "activeQuery"
  /\ active \in Tabs => tabs[active].open
  /\ dl' = [dl EXCEPT ![d] =
              IF active \in Tabs /\ isZendeskUrl(tabs[active].url)
              THEN IF MapHas(tabTicketMap, active)
                   THEN AfterMethod1([dl[d] EXCEPT !.ticketId = tabTicketMap[active],
                                                   !.src = active, !.via = "active"])
                   ELSE SendMessage(dl[d], active, "activeMsg")
              ELSE AfterMethod1(dl[d])]
  /\ UNCHANGED <<tabTicketMap, tabs, lastEvent, leftTicket, fmt>>

\* method 1 without the cache-fill of line 343
ActiveResponse_NoFill(d, outcome) ==
  /\ dl[d].pc = "activeMsg"
  /\ outcome \in {Fail, dl[d].snap}
  /\ dl' = [dl EXCEPT ![d] =
              IF Answered(outcome)
              THEN AfterMethod1([dl[d] EXCEPT !.ticketId = outcome, !.src = dl[d].target,
                                              !.via = "active"])
              ELSE AfterMethod1(dl[d])]
  /\ UNCHANGED <<tabTicketMap, tabs, lastEvent, leftTicket, fmt>>

ActiveResponse(d, outcome) ==
  /\ dl[d].pc = "activeMsg"
  /\ outcome \in {Fail, dl[d].snap}
  /\ IF Answered(outcome)
     THEN /\ tabTicketMap' = MapSet(tabTicketMap, dl[d].target, outcome)
          /\ dl' = [dl EXCEPT ![d] =
                      AfterMethod1([dl[d] EXCEPT !.ticketId = outcome, !.src = dl[d].target,
                                                 !.via = "active"])]
     ELSE /\ tabTicketMap' = tabTicketMap
          /\ dl' = [dl EXCEPT ![d] = AfterMethod1(dl[d])]
  /\ UNCHANGED <<tabs, lastEvent, leftTicket, fmt>>

\* method 2: chrome.tabs.query({url: '*://*.zendesk.com/*'}) answers
AllQueryResult(d, ok, zendeskTabs) ==
  /\ dl[d].pc = "allQuery"
  /\ dl' = [dl EXCEPT ![d] =
              IF ok THEN AfterEnumeration(dl[d], tabTicketMap, zendeskTabs)
              ELSE Decide(dl[d])]
  /\ UNCHANGED <<tabTicketMap, tabs, lastEvent, leftTicket, fmt>>

\* method 2 giving up at the first candidate that does not answer
CandResponse_StopOnFail(d, outcome) ==
  /\ dl[d].pc = "candMsg"
  /\ outcome \in {Fail, dl[d].snap}
  /\ IF Answered(outcome)
     THEN /\ tabTicketMap' = MapSet(tabTicketMap, dl[d].target, outcome)
          /\ dl' = [dl EXCEPT ![d] =
                      Decide([dl[d] EXCEPT !.ticketId = outcome, !.src = dl[d].target,
                                           !.via = "enumeration"])]
     ELSE /\ tabTicketMap' = tabTicketMap
          /\ dl' = [dl EXCEPT ![d] = Decide(dl[d])]
  /\ UNCHANGED <<tabs, lastEvent, leftTicket, fmt>>

\* method 2: the candidate at the head of cands answers
CandResponse(d, outcome) ==
  /\ dl[d].pc = "candMsg"
  /\ outcome \in {Fail, dl[d].snap}
  /\ IF Answered(outcome)
     THEN /\ tabTicketMap' = MapSet(tabTicketMap, dl[d].target, outcome)
          /\ dl' = [dl EXCEPT ![d] =
                      Decide([dl[d] EXCEPT !.ticketId = outcome, !.src = dl[d].target,
                                           !.via = "enumeration"])]
     ELSE /\ tabTicketMap' = tabTicketMap
          /\ dl' = [dl EXCEPT ![d] =
                      LET rest == Tail(dl[d].cands)
                      IN  IF rest = <<>> THEN Decide(dl[d])
                          ELSE SendMessage([dl[d] EXCEPT !.cands = rest], rest[1], "candMsg")]
  /\ UNCHANGED <<tabs, lastEvent, leftTicket, fmt>>

\* chrome.runtime.onMessage.  A message with a sender tab is the TICKET_UPDATE
\* the content script of that tab sends when the ticket its page shows has
\* changed (notifyBackgroundOfTicket drops an unchanged one); sender 0 is a
\* sender without a tab (an extension page)
OnMessage(type, sender, ticketId) ==
  /\ IF sender \in Tabs
     THEN /\ HasContentScript(sender)
          /\ type = "TICKET_UPDATE"
          /\ ticketId # tabs[sender].ticket
          /\ tabs' = [tabs EXCEPT ![sender].ticket = ticketId, ![sender].last = ticketId]
     ELSE tabs' = tabs
  /\ tabTicketMap' = handleMessage(tabTicketMap, [type |-> type, ticketId |-> ticketId], sender)
  /\ lastEvent' = IF type = "TICKET_UPDATE" /\ sender \in Tabs
                  THEN [lastEvent EXCEPT ![sender] = [kind |-> "notify", ticketId |-> ticketId]]
                  ELSE lastEvent
  /\ UNCHANGED <<dl, leftTicket, fmt>>

\* chrome.tabs.onRemoved
OnTabRemoved(t) ==
  /\ tabs[t].open
  /\ tabs' = [tabs EXCEPT ![t] = ClosedTab]
  /\ tabTicketMap' = handleTabRemoved(tabTicketMap, t)
  /\ lastEvent' = [lastEvent EXCEPT ![t] = [kind |-> "closed", ticketId |-> Null]]
  /\ UNCHANGED <<dl, leftTicket, fmt>>

\* chrome.tabs.onUpdated.  url is changeInfo.url, Null when the update changes
\* no URL; reload tells a page load (the new page shows no ticket yet) from a
\* URL change inside the loaded page
OnTabUpdated(t, url, reload) ==
  /\ tabs[t].open
  /\ IF url = Null
     THEN /\ ~reload
          /\ UNCHANGED <<tabs, leftTicket, dl>>
     ELSE /\ reload \/ (MatchesZendeskPattern(url) /\ HasContentScript(t))
          /\ tabs' = [tabs EXCEPT ![t] =
                        [open |-> TRUE, url |-> url,
                         ticket |-> IF reload THEN Null ELSE tabs[t].ticket,
                         last |-> IF reload THEN Null ELSE tabs[t].last]]
          /\ leftTicket' = [leftTicket EXCEPT ![t] =
                              IF isZendeskUrl(url) THEN Null
                              ELSE IF Truthy(tabs[t].ticket) THEN tabs[t].ticket
                              ELSE @]
          /\ dl' = [d \in Downloads |->
                      IF isZendeskUrl(url) /\ dl[d].tabId = t
                      THEN [dl[d] EXCEPT !.stale = Null]
                      ELSE dl[d]]
  /\ tabTicketMap' = handleTabUpdated(tabTicketMap, t, url)
  /\ lastEvent' = IF url # Null /\ ~isZendeskUrl(url)
                  THEN [lastEvent EXCEPT ![t] = [kind |-> "navigated", ticketId |-> Null]]
                  ELSE lastEvent
  /\ UNCHANGED fmt

\* the page of tab t comes to show ticket k (a URL change inside the loaded
\* page, or the DOM being filled); its content script has not looked yet
PageShows(t, k) ==
  /\ HasContentScript(t)
  /\ k # tabs[t].ticket
  /\ tabs' = [tabs EXCEPT ![t].ticket = k]
  /\ UNCHANGED <<tabTicketMap, dl, lastEvent, leftTicket, fmt>>

\* a notifyBackgroundOfTicket that sends whatever the page shows
Notify_NoDedupe(t) ==
  /\ HasContentScript(t)
  /\ tabs' = [tabs EXCEPT ![t].last = tabs[t].ticket]
  /\ tabTicketMap' = handleMessage(tabTicketMap,
                                   [type |-> "TICKET_UPDATE", ticketId |-> tabs[t].ticket], t)
  /\ lastEvent' = [lastEvent EXCEPT ![t] = [kind |-> "notify", ticketId |-> tabs[t].ticket]]
  /\ UNCHANGED <<dl, leftTicket, fmt>>

\* checkForTicketChange in the content script of tab t: notifyBackgroundOfTicket
\* sends what the page shows unless it equals lastKnownTicketId, and the
\* worker's handleMessage applies it
Notify(t) ==
  /\ HasContentScript(t)
  /\ tabs[t].ticket # tabs[t].last
  /\ tabs' = [tabs EXCEPT ![t].last = tabs[t].ticket]
  /\ tabTicketMap' = handleMessage(tabTicketMap,
                                   [type |-> "TICKET_UPDATE", ticketId |-> tabs[t].ticket], t)
  /\ lastEvent' = [lastEvent EXCEPT ![t] = [kind |-> "notify", ticketId |-> tabs[t].ticket]]
  /\ UNCHANGED <<dl, leftTicket, fmt>>

\* the service worker is terminated and started again: the Map is a new empty
\* Map and the closures and timers of the downloads in progress are gone;
\* the pages and their content scripts stay as they are
Restart ==
  /\ tabTicketMap' = EmptyMap
  /\ dl' = [d \in Downloads |->
              IF Free(d) THEN dl[d]
              ELSE [dl[d] EXCEPT !.pc = "dead", !.timer = FALSE]]
  /\ lastEvent' = [t \in Tabs |-> [kind |-> "restart", ticketId |-> Null]]
  /\ UNCHANGED <<tabs, leftTicket, fmt>>

\* ------------------------------------------------------- pure functions
NameAlphabet == {"a", "Z", "D", "-", "[", "1", "]", " ", "$", "&"}

RECURSIVE StringsUpTo(_, _)
StringsUpTo(alphabet, n) ==
  IF n = 0 THEN {<<>>}
  ELSE LET shorter == StringsUpTo(alphabet, n - 1)
       IN  shorter \cup {Append(s, c) : s \in shorter, c \in alphabet}

Names == StringsUpTo(NameAlphabet, MaxNameLen)

FmtOff == [phase |-> "off", name |-> <<>>, ticket |-> <<>>, format |-> "undefined", out |-> <<>>]

\* formatFilename applied under the template the settings select
ApplyFormat ==
  /\ fmt.phase = "in"
  /\ fmt' = [fmt EXCEPT !.phase = "out",
                        !.out = formatFilename(fmt.name, fmt.ticket, getFormatTemplate(fmt.format))]
  /\ UNCHANGED <<tabTicketMap, tabs, dl, lastEvent, leftTicket>>

PathAlphabet == {"a", "/", "\\"}
Paths == StringsUpTo(PathAlphabet, MaxPathLen)
NewNames == {<<>>, <<"n">>, <<"Z", "D", "-", "1", "_", "a">>}

\* reconstructPath applied to a path and a new file name
Reconstruct ==
  /\ fmt.phase = "in"
  /\ fmt' = [fmt EXCEPT !.phase = "out",
                        !.out = reconstructPath(fmt.path, fmt.newName)]
  /\ UNCHANGED <<tabTicketMap, tabs, dl, lastEvent, leftTicket>>

\* new names with and without a separator in them
RoundTripNames == NewNames \cup {<<"n", "/", "m">>, <<"\\", "n">>}

\* extractFilename, then reconstructPath with the base name it gave
ExtractThenReconstruct ==
  /\ fmt.phase = "in"
  /\ LET base == extractFilename(fmt.path)
     IN  fmt' = [fmt EXCEPT !.phase = "back", !.base = base,
                            !.out = reconstructPath(fmt.path, base)]
  /\ UNCHANGED <<tabTicketMap, tabs, dl, lastEvent, leftTicket>>

\* reconstructPath, then extractFilename of the path it gave
ReconstructThenExtract ==
  /\ fmt.phase = "in"
  /\ LET out == reconstructPath(fmt.path, fmt.newName)
     IN  fmt' = [fmt EXCEPT !.phase = "again", !.out = out,
                            !.base = extractFilename(out)]
  /\ UNCHANGED <<tabTicketMap, tabs, dl, lastEvent, leftTicket>>

\* ------------------------------------------------- firefox/content.js
ZENDESK_DOWNLOAD_DOMAINS ==
  {<<"zendesk", "com">>, <<"zdusercontent", "com">>, <<"zdassets", "com">>}

FORMAT_TEMPLATES ==
  [id \in {"prefix_underscore", "bracket", "minimal"} |->
     CASE id = "prefix_underscore" -> <<"Z", "D", "-">> \o TicketSlot \o <<"_">> \o FilenameSlot
       [] id = "bracket" -> <<"[">> \o TicketSlot \o <<"]", " ">> \o FilenameSlot
       [] id = "minimal" -> TicketSlot \o <<"-">> \o FilenameSlot]

\* urlObj.hostname.endsWith(domain) for one of the domains, each of which
\* begins with a dot
isZendeskDownloadUrl(hostname) ==
  \E domain \in ZENDESK_DOWNLOAD_DOMAINS : EndsWithDomain(hostname, domain)

\* formatFilename of the Firefox content script, under the cached settings
firefoxFormatFilename(originalFilename, ticketId, format) ==
  LET template == IF format \in DOMAIN FORMAT_TEMPLATES THEN FORMAT_TEMPLATES[format]
                  ELSE FORMAT_TEMPLATES["prefix_underscore"]
  IN  Replace(Replace(template, TicketSlot, ticketId), FilenameSlot, originalFilename)

\* the download attribute when it is set, else the last segment of the URL's
\* path (the names drawn hold no percent escape, so decodeURIComponent gives
\* them back as they are), else 'download'
getFilenameFromLink(link) ==
  IF link.download # <<>> THEN link.download
  ELSE IF link.urlName # <<>> THEN link.urlName
  ELSE <<"d", "o", "w", "n", "l", "o", "a", "d">>

\* an already-renamed check without the test for a leading number
startsRenamed_NoNumber(originalFilename) ==
  \/ StartsWith(originalFilename, <<"Z", "D", "-">>)
  \/ StartsWith(originalFilename, <<"[">>)

\* startsWith('ZD-') || startsWith('[') || /^\d+-/.test(originalFilename)
startsRenamed(originalFilename) ==
  \/ StartsWith(originalFilename, <<"Z", "D", "-">>)
  \/ StartsWith(originalFilename, <<"[">>)
  \/ \E k \in 1..(Len(originalFilename) - 1) :
       /\ \A i \in 1..k : IsDigit(originalFilename[i])
       /\ originalFilename[k + 1] = "-"

\* handleClick on a link: the link record after the handler has run
handleClick(link) ==
  IF link.enabled # "true" THEN link
  ELSE IF ~isZendeskDownloadUrl(link.host) THEN link
  ELSE IF ~Truthy(link.ticket) THEN link
  ELSE LET originalFilename == getFilenameFromLink(link)
       IN  IF startsRenamed(originalFilename) THEN link
           ELSE [link EXCEPT !.download =
                               firefoxFormatFilename(originalFilename, link.ticket, link.format),
                             !.writes = @ + 1]

\* a click on the link reaches the document's capturing click listener
Click ==
  /\ fmt.phase = "link"
  /\ fmt.clicks < MaxClicks
  /\ fmt' = [handleClick(fmt) EXCEPT !.clicks = @ + 1]
  /\ UNCHANGED <<tabTicketMap, tabs, dl, lastEvent, leftTicket>>

\* -------------------------------------------------------------- the popup
\* no record under the storage key
Absent == [kind |-> "absent"]

\* { ...DEFAULT_SETTINGS, ...result[STORAGE_KEY] }: the records the popup
\* writes hold both fields, so a stored record overrides both defaults
loadSettings(stored, ok) ==
  IF ok /\ stored # Absent THEN [enabled |-> stored.enabled, format |-> stored.format]
  ELSE DEFAULT_SETTINGS

getSettingsFromUI(p) == [enabled |-> p.checked, format |-> p.selected]

\* the two controls after updateUI(settings)
updateUI(p, settings) == [p EXCEPT !.checked = settings.enabled, !.selected = settings.format]

\* the user flips the toggle and handleToggleChange runs up to its await:
\* the record read from the controls waits to be written
handleToggleChange ==
  /\ fmt.phase = "popup"
  /\ fmt.changes < MaxChanges
  /\ LET p == [fmt EXCEPT !.checked = IF @ = "true" THEN "false" ELSE "true",
                          !.changes = @ + 1]
     IN  fmt' = [p EXCEPT !.saves = Append(@, [kind |-> "toggle",
                                                 settings |-> getSettingsFromUI(p)])]
  /\ UNCHANGED <<tabTicketMap, tabs, dl, lastEvent, leftTicket>>

\* the user selects another format and handleFormatChange runs up to its
\* await
handleFormatChange(format) ==
  /\ fmt.phase = "popup"
  /\ fmt.changes < MaxChanges
  /\ format # fmt.selected
  /\ LET p == [fmt EXCEPT !.selected = format, !.changes = @ + 1]
     IN  fmt' = [p EXCEPT !.saves = Append(@, [kind |-> "format",
                                                 settings |-> getSettingsFromUI(p)])]
  /\ UNCHANGED <<tabTicketMap, tabs, dl, lastEvent, leftTicket>>

\* storage.sync.set of the oldest waiting handler completes; a rejected
\* write leaves the stored record as it was
saveSettings(ok) ==
  /\ fmt.phase = "popup"
  /\ fmt.saves # <<>>
  /\ fmt' = [fmt EXCEPT !.saves = Tail(@),
                        !.stored = IF ok THEN Head(fmt.saves).settings ELSE @,
                        !.applied = Head(fmt.saves).kind,
                        !.failed = @ \/ ~ok]
  /\ UNCHANGED <<tabTicketMap, tabs, dl, lastEvent, leftTicket>>

\* storage.sync.get of initialize answers with the record stored now
LoadAnswers(ok) ==
  /\ fmt.phase = "popup"
  /\ fmt.load = "pending"
  /\ fmt' = [fmt EXCEPT !.load = "read", !.loaded = loadSettings(fmt.stored, ok),
                        !.failed = @ \/ ~ok]
  /\ UNCHANGED <<tabTicketMap, tabs, dl, lastEvent, leftTicket>>

\* initialize resumes from its await and calls updateUI(settings)
LoadApplied ==
  /\ fmt.phase = "popup"
  /\ fmt.load = "read"
  /\ fmt' = [updateUI(fmt, fmt.loaded) EXCEPT !.load = "done"]
  /\ UNCHANGED <<tabTicketMap, tabs, dl, lastEvent, leftTicket>>

\* ---------------------------------------------------------- specifications
\* the open tabs whose pages show one of tickets, each content script having
\* announced what its page shows
TabStatesOf(tickets) ==
  {ts \in {[open |-> TRUE, url |-> u, ticket |-> k, last |-> k] :
             u \in TabUrls, k \in tickets} :
     MatchesZendeskPattern(ts.url) \/ ts.ticket = Null}

TabStates == TabStatesOf(PageTickets)

\* the service worker has just started: the Map is empty, whatever the tabs show
Init ==
  /\ tabTicketMap = EmptyMap
  /\ tabs \in [Tabs -> TabStates]
  /\ dl = [d \in Downloads |-> IdleFlow]
  /\ lastEvent = [t \in Tabs |-> NoEvent]
  /\ leftTicket = [t \in Tabs |-> Null]
  /\ fmt = FmtOff

LifecycleNext ==
  \/ \E sender \in Tabs, ticketId \in PageTickets : OnMessage("TICKET_UPDATE", sender, ticketId)
  \/ \E type \in {"TICKET_UPDATE", "GET_SETTINGS"} : OnMessage(type, 0, <<"1">>)
  \/ \E t \in Tabs : OnTabRemoved(t)
  \/ \E t \in Tabs, url \in TabUrls \cup {Null}, reload \in BOOLEAN : OnTabUpdated(t, url, reload)

\* the steps of the download flows, for download items named from names and
\* settings reads that end as one of outcomes
DownloadNext(names, outcomes) ==
  \/ \E d \in Downloads, tabId \in TabIds, referrer \in Referrers, filename \in names :
        StartDownload(d, tabId, referrer, filename)
  \/ \E d \in Downloads : TimerFires(d)
  \/ \E d \in Downloads, outcome \in outcomes : SettingsLoaded(d, outcome)
  \/ \E d \in Downloads, outcome \in AnyTickets \cup {Fail} : DirectResponse(d, outcome)
  \/ \E d \in Downloads, active \in Tabs \cup {0, -1} : ActiveQueryResult(d, active)
  \/ \E d \in Downloads, outcome \in AnyTickets \cup {Fail} : ActiveResponse(d, outcome)
  \/ \E d \in Downloads, ok \in BOOLEAN,
        zendeskTabs \in Orders({t \in Tabs : HasContentScript(t)}) :
        AllQueryResult(d, ok, zendeskTabs)
  \/ \E d \in Downloads, outcome \in AnyTickets \cup {Fail} : CandResponse(d, outcome)

\* Spec: the download flows interleaved with the lifecycle events, for one
\* file name and two outcomes of the settings read
SpecNames == {<<"d", "/", "a">>}
SpecOutcomes ==
  {[kind |-> "error", enabled |-> "undefined", format |-> "undefined"],
   [kind |-> "record", enabled |-> "false", format |-> "bracket"]}

Next == LifecycleNext \/ DownloadNext(SpecNames, SpecOutcomes)

Spec == Init /\ [][Next]_vars

\* DecisionSpec: the download flows over every file name and every outcome of
\* the settings read, while no lifecycle event arrives
DecisionNext == DownloadNext(Filenames, SettingsOutcomes)

DecisionSpec == Init /\ [][DecisionNext]_vars

\* the timer of createSafeSuggest fires once armed unless it is cleared
FairDecisionSpec == DecisionSpec /\ \A d \in Downloads : WF_vars(TimerFires(d))

\* the lifecycle events alone, no download in progress
LifecycleSpec == Init /\ [][LifecycleNext]_vars

\* ContentSpec: the pages, their content scripts and the tab events, with the
\* worker restarting; a content script that has seen its page change sends
\* its notification
ContentNext ==
  \/ \E t \in Tabs, k \in PageTickets : PageShows(t, k)
  \/ \E t \in Tabs : Notify(t)
  \/ Restart
  \/ \E t \in Tabs : OnTabRemoved(t)
  \/ \E t \in Tabs, url \in TabUrls \cup {Null}, reload \in BOOLEAN : OnTabUpdated(t, url, reload)

ContentSpec == Init /\ [][ContentNext]_vars /\ \A t \in Tabs : WF_vars(Notify(t))

\* TerminationSpec: the download flows with the worker being terminated and
\* restarted; a timer that is armed fires
TerminationNext == DownloadNext(SpecNames, SpecOutcomes) \/ Restart

TerminationSpec ==
  Init /\ [][TerminationNext]_vars /\ \A d \in Downloads : WF_vars(TimerFires(d))

\* TicketSpec: the ticket notifications and the download flows for pages
\* whose data-ticket-id attribute may be empty or non-numeric
TicketInit ==
  /\ tabTicketMap = EmptyMap
  /\ tabs \in [Tabs -> TabStatesOf(AnyTickets)]
  /\ dl = [d \in Downloads |-> IdleFlow]
  /\ lastEvent = [t \in Tabs |-> NoEvent]
  /\ leftTicket = [t \in Tabs |-> Null]
  /\ fmt = FmtOff

TicketOutcomes == {[kind |-> "absent", enabled |-> "undefined", format |-> "undefined"]}

TicketNext ==
  \/ \E sender \in Tabs, ticketId \in AnyTickets : OnMessage("TICKET_UPDATE", sender, ticketId)
  \/ DownloadNext(SpecNames, TicketOutcomes)

TicketSpec == TicketInit /\ [][TicketNext]_vars

FmtInit ==
  /\ tabTicketMap = EmptyMap
  /\ tabs = [t \in Tabs |-> ClosedTab]
  /\ dl = [d \in Downloads |-> IdleFlow]
  /\ lastEvent = [t \in Tabs |-> NoEvent]
  /\ leftTicket = [t \in Tabs |-> Null]
  /\ fmt \in [phase : {"in"}, name : Names, ticket : Tickets,
              format : FormatIds, out : {<<>>}]

FormatSpec == FmtInit /\ [][ApplyFormat]_vars

PathInit ==
  /\ tabTicketMap = EmptyMap
  /\ tabs = [t \in Tabs |-> ClosedTab]
  /\ dl = [d \in Downloads |-> IdleFlow]
  /\ lastEvent = [t \in Tabs |-> NoEvent]
  /\ leftTicket = [t \in Tabs |-> Null]
  /\ fmt \in [phase : {"in"}, path : Paths, newName : NewNames, out : {<<>>}]

PathSpec == PathInit /\ [][Reconstruct]_vars

RoundTripInit ==
  /\ tabTicketMap = EmptyMap
  /\ tabs = [t \in Tabs |-> ClosedTab]
  /\ dl = [d \in Downloads |-> IdleFlow]
  /\ lastEvent = [t \in Tabs |-> NoEvent]
  /\ leftTicket = [t \in Tabs |-> Null]
  /\ fmt \in [phase : {"in"}, path : Paths, newName : RoundTripNames,
               base : {<<>>}, out : {<<>>}]

RoundTripSpec ==
  RoundTripInit /\ [][ExtractThenReconstruct \/ ReconstructThenExtract]_vars

\* hostnames of link targets: two Zendesk download hosts, a host outside
\* the domains, and the bare domain, which no '.zendesk.com' suffix matches
LinkHosts == {ZD, <<"x", "zdusercontent", "com">>, EXAMPLE, <<"zendesk", "com">>}

\* a link as the page made it, without a download attribute or with one, on a
\* page whose URL yields a ticket or none, under the cached settings
ClickInit ==
  /\ tabTicketMap = EmptyMap
  /\ tabs = [t \in Tabs |-> ClosedTab]
  /\ dl = [d \in Downloads |-> IdleFlow]
  /\ lastEvent = [t \in Tabs |-> NoEvent]
  /\ leftTicket = [t \in Tabs |-> Null]
  /\ \E download \in {<<>>, <<"b">>}, urlName \in Names, host \in LinkHosts,
        ticket \in PageTickets, enabled \in Enabled, format \in FormatIds :
        fmt = [phase |-> "link", download |-> download, orig |-> download,
               urlName |-> urlName, host |-> host, ticket |-> ticket,
               enabled |-> enabled, format |-> format, clicks |-> 0, writes |-> 0]

ClickSpec == ClickInit /\ [][Click]_vars

\* OverlapSpec: download events received while earlier ones are suspended,
\* each with the closure createSafeSuggest made for it, on two ticket pages
Overlapping == 1..NumOverlapping

OverlapInit ==
  /\ tabTicketMap = EmptyMap
  /\ tabs = [t \in Tabs |->
               [open |-> TRUE, url |-> ZD, ticket |-> <<"1">>, last |-> <<"1">>]]
  /\ dl = [d \in Overlapping |-> IdleFlow]
  /\ lastEvent = [t \in Tabs |-> NoEvent]
  /\ leftTicket = [t \in Tabs |-> Null]
  /\ fmt = FmtOff

OverlapNext ==
  \/ \E d \in Overlapping, tabId \in {0, 1} :
        StartDownload(d, tabId, ZD, <<"d", "/", "a">>)
  \/ \E d \in Overlapping : TimerFires(d)
  \/ \E d \in Overlapping, outcome \in SpecOutcomes : SettingsLoaded(d, outcome)
  \/ \E d \in Overlapping, outcome \in {<<"1">>, Fail} : DirectResponse(d, outcome)
  \/ \E d \in Overlapping, active \in {0, 1} : ActiveQueryResult(d, active)
  \/ \E d \in Overlapping, outcome \in {<<"1">>, Fail} : ActiveResponse(d, outcome)
  \/ \E d \in Overlapping, ok \in BOOLEAN,
        zendeskTabs \in Orders({t \in Tabs : HasContentScript(t)}) :
        AllQueryResult(d, ok, zendeskTabs)
  \/ \E d \in Overlapping, outcome \in {<<"1">>, Fail} : CandResponse(d, outcome)

OverlapSpec == OverlapInit /\ [][OverlapNext]_vars

\* PopupSpec: the popup from DOMContentLoaded on.  initialize has attached
\* the change listeners and issued the settings read; the select shows its
\* first option and the toggle is as the markup has it
PopupInit ==
  /\ tabTicketMap = EmptyMap
  /\ tabs = [t \in Tabs |-> ClosedTab]
  /\ dl = [d \in Downloads |-> IdleFlow]
  /\ lastEvent = [t \in Tabs |-> NoEvent]
  /\ leftTicket = [t \in Tabs |-> Null]
  /\ \E stored \in {Absent} \cup [enabled : {"true", "false"},
                                    format : {FILENAME_FORMATS[i].id : i \in 1..Len(FILENAME_FORMATS)}],
        checked \in {"true", "false"} :
        fmt = [phase |-> "popup", stored |-> stored,
               checked |-> checked, selected |-> FILENAME_FORMATS[1].id,
               load |-> "pending", loaded |-> DEFAULT_SETTINGS,
               saves |-> <<>>, applied |-> "none", changes |-> 0, failed |-> FALSE]

PopupNext ==
  \/ handleToggleChange
  \/ \E format \in {FILENAME_FORMATS[i].id : i \in 1..Len(FILENAME_FORMATS)} :
        handleFormatChange(format)
  \/ \E ok \in BOOLEAN : saveSettings(ok)
  \/ \E ok \in BOOLEAN : LoadAnswers(ok)
  \/ LoadApplied

PopupSpec == PopupInit /\ [][PopupNext]_vars

\* ==================================================================== claims

\* C1: for each download event the host's completion callback is invoked at
\* most once, whichever of the main logic and the deadline timer comes first.
C1_SuggestAtMostOnce == \A d \in Downloads : dl[d].calls <= 1

\* the timer has invoked the callback and the main logic has afterwards
\* reached its own safeSuggest with a resolved ticket
C1_Witness ==
  \E d \in Downloads :
    /\ dl[d].pc = "returned" /\ dl[d].timedOut
    /\ Truthy(dl[d].ticketId) /\ dl[d].calls = 1

\* C2: every download event eventually has its completion callback invoked,
\* also when a settings read, a tab query or a tab message never completes
\* and when the main logic aborts with an exception (the timer being fair).
C2_EventuallySuggested ==
  \A d \in Downloads : (dl[d].pc # "idle" /\ ~dl[d].called) ~> dl[d].called

\* the main logic has aborted with an exception and the timer has completed
\* the download
C2_Witness ==
  \E d \in Downloads : dl[d].pc = "threw" /\ dl[d].called /\ dl[d].timedOut

\* C3: once the deadline timer has invoked the callback, the download keeps
\* its original path: what the main logic computes afterwards is discarded.
C3_TimeoutKeepsOriginal ==
  \A d \in Downloads : dl[d].timedOut => (dl[d].suggested = Null /\ dl[d].calls = 1)

\* the timer fired first, and the main logic later returned from the rename
\* branch (ticket resolved, base name not of a renamed shape)
C3_Witness ==
  \E d \in Downloads :
    /\ dl[d].pc = "returned" /\ dl[d].timedOut
    /\ Truthy(dl[d].ticketId)
    /\ dl[d].filename = <<"d", "/", "a">>
    /\ dl[d].suggested = Null

\* the path the decision suggests for file name p under ticket t and format id f
RenamedPath(p, t, f) ==
  reconstructPath(p, formatFilename(extractFilename(p), t, getFormatTemplate(f)))

\* C4: when the settings read completes for a download of a real tab that
\* is in the Map, the handler runs to its end without suspending at any
\* collaborator call, the ticket it uses is the Map's value for that tab,
\* and the Map is left as it was.
C4_RegistryHitNoQuery ==
  [][\A d \in Downloads :
       ( /\ dl[d].pc = "getSettings"
         /\ dl'[d].pc # "getSettings"
         /\ dl'[d].enabled = "true"
         /\ dl[d].tabId \in Tabs
         /\ MapHas(tabTicketMap, dl[d].tabId) )
       => ( /\ dl'[d].pc \in {"returned", "threw"}
            /\ ~dl'[d].queried
            /\ dl'[d].ticketId = tabTicketMap[dl[d].tabId]
            /\ tabTicketMap' = tabTicketMap
            /\ (dl'[d].pc = "returned" /\ ~dl'[d].timedOut /\ dl'[d].suggested # Null)
                 => dl'[d].suggested =
                      RenamedPath(dl[d].filename, tabTicketMap[dl[d].tabId], dl'[d].format) )]_vars

\* a download was renamed from the Map entry of its own tab without any
\* collaborator call while another tab holds a different ticket
C4_Witness ==
  \E d \in Downloads :
    /\ dl[d].pc = "returned" /\ ~dl[d].queried /\ ~dl[d].timedOut
    /\ dl[d].tabId \in Tabs /\ dl[d].src = dl[d].tabId
    /\ dl[d].suggested # Null
    /\ \E u \in Tabs \ {dl[d].tabId} :
         MapHas(tabTicketMap, u) /\ tabTicketMap[u] # dl[d].ticketId

\* C5: a download whose settings have enabled = false keeps its original
\* path, whatever the Map holds and whatever its tab id, referrer and name.
C5_DisabledKeepsOriginal ==
  \A d \in Downloads :
    (dl[d].pc # "idle" /\ dl[d].enabled = "false")
      => (dl[d].pc = "returned" /\ dl[d].calls = 1 /\ dl[d].suggested = Null)

\* the main logic answered a download of a Zendesk tab that is in the Map
\* with keep-original because renaming is disabled
C5_Witness ==
  \E d \in Downloads :
    /\ dl[d].enabled = "false" /\ dl[d].pc = "returned" /\ ~dl[d].timedOut
    /\ dl[d].tabId \in Tabs /\ MapHas(tabTicketMap, dl[d].tabId)
    /\ isZendeskUrl(dl[d].referrer)
    /\ dl[d].filename = <<"d", "/", "a">>

\* C6: a new path is suggested only when a non-empty ticket id was resolved;
\* a flow that returns without one has answered keep-original.
C6_NoTicketKeepsOriginal ==
  \A d \in Downloads :
    /\ dl[d].suggested # Null => Truthy(dl[d].ticketId)
    /\ (dl[d].pc = "returned" /\ ~Truthy(dl[d].ticketId))
         => (dl[d].called /\ dl[d].suggested = Null)

\* the whole chain ran (collaborators were queried, the referrer is a
\* Zendesk URL) and returned without a ticket before the timer
C6_Witness ==
  \E d \in Downloads :
    /\ dl[d].pc = "returned" /\ ~dl[d].timedOut /\ dl[d].queried
    /\ dl[d].enabled = "true" /\ isZendeskUrl(dl[d].referrer)
    /\ dl[d].tabId \in Tabs
    /\ ~Truthy(dl[d].ticketId) /\ dl[d].suggested = Null

\* the renamed shapes: 'ZD-' first, or a bracketed run of digits and then
\* white space
HasRenamedShape(name) ==
  \/ (Len(name) >= 3 /\ name[1] = "Z" /\ name[2] = "D" /\ name[3] = "-")
  \/ \E k \in 3..(Len(name) - 1) :
       /\ name[1] = "[" /\ name[k] = "]" /\ name[k + 1] \in {" ", "\t"}
       /\ \A i \in 2..(k - 1) : name[i] \in {"0", "1", "2", "3", "4", "5", "6", "7", "8", "9"}

\* C7: a download whose base name already has a renamed shape keeps its
\* original path, also when a ticket id was resolved.
C7_AlreadyRenamedKeepsOriginal ==
  \A d \in Downloads :
    (dl[d].filename # Null /\ HasRenamedShape(extractFilename(dl[d].filename)))
      => dl[d].suggested = Null

\* the main logic resolved a ticket for a download whose base name, behind a
\* directory, has the bracket shape, and answered keep-original
C7_Witness ==
  \E d \in Downloads :
    /\ dl[d].pc = "returned" /\ ~dl[d].timedOut
    /\ Truthy(dl[d].ticketId)
    /\ dl[d].filename = <<"d", "\\", "[", "1", "]", " ", "a">>
    /\ dl[d].suggested = Null

\* C8: under every supported template the name format produces is
\* recognised by the already-renamed check.
C8_FormatOutputRecognised ==
  fmt.phase = "out" => isAlreadyRenamed(fmt.out)

\* what the last applicable lifecycle event of a tab leaves in the Map
Expected(ev) == IF ev.kind = "notify" /\ Truthy(ev.ticketId) THEN ev.ticketId ELSE Null

\* C9: after any sequence of ticket-context notifications, tab-closed and
\* tab-navigated events, the lookup of each tab id gives what the last
\* applicable event for that tab left: its ticket, or nothing.
C9_RegistryReflectsLastEvent ==
  \A t \in Tabs : Lookup(tabTicketMap, t) = Expected(lastEvent[t])

\* one tab lost its entry by navigating away from a ticket while another
\* tab's entry is the ticket of its last notification
C9_Witness ==
  \E t, u \in Tabs :
    /\ lastEvent[t].kind = "navigated" /\ leftTicket[t] # Null
    /\ ~MapHas(tabTicketMap, t)
    /\ lastEvent[u].kind = "notify" /\ Truthy(lastEvent[u].ticketId)
    /\ Lookup(tabTicketMap, u) = lastEvent[u].ticketId

\* C10: a download that starts after its tab has left the recognized
\* domains is never renamed with the ticket that tab showed before.
C10_NoLeakAfterNavigation ==
  \A d \in Downloads :
    (dl[d].pc = "returned" /\ dl[d].suggested # Null /\ dl[d].stale # Null)
      => ~(dl[d].src = dl[d].tabId /\ dl[d].ticketId = dl[d].stale)

\* method 1 has just supplied the ticket of download d, whose own tab is real
\* and has no entry in the Map, and the main logic has run to its end
Method1Resolved(d) ==
  /\ dl[d].pc \in {"activeQuery", "activeMsg"}
  /\ dl'[d].pc \in {"returned", "threw"}
  /\ dl'[d].via = "active"
  /\ isZendeskUrl(dl[d].referrer)
  /\ dl[d].tabId \in Tabs
  /\ ~MapHas(tabTicketMap, dl[d].tabId)

\* the main logic of download d has suggested the path renamed with its ticket
SuggestsRenamed(f) ==
  (f.pc = "returned" /\ ~f.timedOut /\ ~HasRenamedShape(extractFilename(f.filename)))
    => f.suggested = RenamedPath(f.filename, f.ticketId, f.format)

\* C11 as stated: when a download of a real tab without a Map entry and with
\* a Zendesk referrer gets its ticket from the active-tab query, the path
\* with that ticket is suggested and the Map afterwards maps the download's
\* own tab id to that ticket.
C11_OwnTabMappedAfterActiveQuery ==
  [][\A d \in Downloads :
       Method1Resolved(d)
         => ( /\ SuggestsRenamed(dl'[d])
              /\ Lookup(tabTicketMap', dl[d].tabId) = dl'[d].ticketId )]_vars

\* C11 amended: in that case the path with that ticket is suggested (the
\* deadline not passed, the name not of a renamed shape) and the Map
\* afterwards maps the id of the active tab, which supplied the ticket, to
\* it; the download's own tab id is mapped only when it is the active tab.
C11_ActiveTabMappedAfterActiveQuery ==
  [][\A d \in Downloads :
       Method1Resolved(d)
         => ( /\ SuggestsRenamed(dl'[d])
              /\ dl'[d].src \in Tabs
              /\ Lookup(tabTicketMap', dl'[d].src) = dl'[d].ticketId
              /\ \A t \in Tabs \ {dl'[d].src} :
                   Lookup(tabTicketMap', t) = Lookup(tabTicketMap, t) )]_vars

\* a download of a tab that has no entry was renamed with the ticket the
\* active tab, another one, answered, and the Map holds it under that tab
C11_Witness ==
  \E d \in Downloads :
    /\ dl[d].pc = "returned" /\ ~dl[d].timedOut /\ dl[d].via = "active"
    /\ dl[d].tabId \in Tabs /\ dl[d].src \in Tabs \ {dl[d].tabId}
    /\ ~MapHas(tabTicketMap, dl[d].tabId)
    /\ Lookup(tabTicketMap, dl[d].src) = dl[d].ticketId
    /\ dl[d].suggested = RenamedPath(dl[d].filename, dl[d].ticketId, dl[d].format)

\* C12: when the direct GET_TICKET query of a download's real tab, absent
\* from the Map when it was asked, answers with a non-empty ticket, the
\* resolver returns that ticket and the Map then maps that tab id to it (and
\* nothing else changes in the Map); when the query fails or answers with no
\* ticket the Map is not written and the resolution falls through: to the
\* fallback methods under a Zendesk referrer, to keep-original otherwise.
C12_ColdCacheRecovery ==
  [][\A d \in Downloads :
       (dl[d].pc = "directMsg" /\ dl'[d].pc # "directMsg")
         => IF dl'[d].via = "direct"
            THEN /\ Truthy(dl[d].snap)
                 /\ dl'[d].ticketId = dl[d].snap
                 /\ dl'[d].pc \in {"returned", "threw"}
                 /\ Lookup(tabTicketMap', dl[d].tabId) = dl[d].snap
                 /\ \A t \in Tabs \ {dl[d].tabId} :
                      Lookup(tabTicketMap', t) = Lookup(tabTicketMap, t)
            ELSE /\ tabTicketMap' = tabTicketMap
                 /\ ~Truthy(dl'[d].ticketId)
                 /\ dl'[d].via = "none"
                 /\ IF isZendeskUrl(dl[d].referrer)
                    THEN dl'[d].pc = "activeQuery"
                    ELSE dl'[d].pc = "returned" /\ dl'[d].called /\ dl'[d].suggested = Null]_vars

\* a download of a tab absent from the Map was renamed with the ticket its
\* own tab answered, which the Map now holds for that tab
C12_Witness ==
  \E d \in Downloads :
    /\ dl[d].pc = "returned" /\ ~dl[d].timedOut /\ dl[d].via = "direct"
    /\ dl[d].tabId \in Tabs
    /\ Lookup(tabTicketMap, dl[d].tabId) = dl[d].ticketId
    /\ dl[d].suggested = RenamedPath(dl[d].filename, dl[d].ticketId, dl[d].format)

\* C13: a download whose referrer is not a Zendesk URL and that carries no
\* tab id (absent, or the sentinel -1) is answered keep-original by the main
\* logic, without any collaborator being asked.
C13_NoReferrerNoTabKeepsOriginal ==
  \A d \in Downloads :
    (dl[d].pc \notin {"idle", "getSettings"}
       /\ ~isZendeskUrl(dl[d].referrer) /\ dl[d].tabId \in {0, -1})
      => ( /\ dl[d].pc = "returned" /\ dl[d].calls = 1
           /\ dl[d].suggested = Null
           /\ ~dl[d].queried /\ dl[d].via = "none" )

\* an enabled download with the sentinel tab id and a foreign referrer was
\* answered keep-original by the main logic while the Map holds a ticket of
\* an open Zendesk tab
C13_Witness ==
  \E d \in Downloads :
    /\ dl[d].pc = "returned" /\ ~dl[d].timedOut /\ dl[d].enabled = "true"
    /\ dl[d].tabId = -1 /\ ~isZendeskUrl(dl[d].referrer)
    /\ dl[d].filename = <<"d", "/", "a">>
    /\ dl[d].suggested = Null
    /\ \E t \in Tabs : MapHas(tabTicketMap, t) /\ HasContentScript(t)

\* C14: a download with tab id -1 is always left unchanged.
C14_SentinelTabKeepsOriginal ==
  \A d \in Downloads : dl[d].tabId = -1 => dl[d].suggested = Null

\* C15: a download of a Zendesk tab whose page shows no ticket (its content
\* script answers a null ticket) is not renamed, whatever the Map holds for
\* the other tabs (for tabs that stay as they are during the download).
C15_NonTicketPageKeepsOriginal ==
  \A d \in Downloads :
    ( /\ dl[d].tabId \in Tabs
      /\ HasContentScript(dl[d].tabId)
      /\ tabs[dl[d].tabId].ticket = Null )
      => dl[d].suggested = Null

\* C16: for a path with a separator, reconstructPath gives the path up to
\* and including its last '/' or '\', character for character, followed by
\* the new name; for a path without a separator it gives the new name.
C16_PathReconstruction ==
  fmt.phase = "out" =>
    LET p == fmt.path
        seps == {i \in 1..Len(p) : p[i] = "/" \/ p[i] = "\\"}
    IN  IF seps = {} THEN fmt.out = fmt.newName
        ELSE \E k \in seps :
               /\ \A j \in seps : j <= k
               /\ Len(fmt.out) = k + Len(fmt.newName)
               /\ \A i \in 1..k : fmt.out[i] = p[i]
               /\ \A i \in 1..Len(fmt.newName) : fmt.out[k + i] = fmt.newName[i]

\* the directory of a path that mixes both separators, the backslash last,
\* was kept in front of the new name
C16_Witness ==
  /\ fmt.phase = "out"
  /\ fmt.path = <<"/", "\\", "a">>
  /\ fmt.newName = <<"n">>
  /\ fmt.out = <<"/", "\\", "n">>

\* the three templates of FILENAME_FORMATS with the ticket id and the
\* original name written into their slots
Filled(formatId, ticket, name) ==
  CASE formatId = "prefix_underscore" -> <<"Z", "D", "-">> \o ticket \o <<"_">> \o name
    [] formatId = "bracket" -> <<"[">> \o ticket \o <<"]", " ">> \o name
    [] formatId = "minimal" -> ticket \o <<"-">> \o name

\* C17: under each of the three templates, for every original name and
\* ticket id, format gives the template with the ticket id in the ticket
\* slot and the original name, every character of it, in the filename slot.
C17_FormatFillsSlots ==
  (fmt.phase = "out" /\ fmt.format \in {"prefix_underscore", "bracket", "minimal"})
    => fmt.out = Filled(fmt.format, fmt.ticket, fmt.name)

KnownFormats == {"prefix_underscore", "bracket", "minimal"}

\* C18: a download whose stored settings name an unknown format, or none,
\* is renamed under the default template 'ZD-{ticket}_{filename}': the main
\* logic raises no error for it and, with a ticket resolved and a name not
\* of a renamed shape, suggests the path under that template.
C18_UnknownFormatUsesDefault ==
  \A d \in Downloads :
    (dl[d].read = "record" /\ dl[d].enabled = "true" /\ dl[d].format \notin KnownFormats)
      => ( /\ dl[d].pc = "threw" => dl[d].filename = Null
           /\ ( /\ dl[d].pc = "returned" /\ ~dl[d].timedOut
                /\ Truthy(dl[d].ticketId)
                /\ ~HasRenamedShape(extractFilename(dl[d].filename)) )
                => dl[d].suggested =
                     reconstructPath(dl[d].filename,
                                     Filled("prefix_underscore", dl[d].ticketId,
                                            extractFilename(dl[d].filename))) )

\* a download under a stored record without a format was renamed under the
\* default template
C18_Witness ==
  \E d \in Downloads :
    /\ dl[d].pc = "returned" /\ ~dl[d].timedOut
    /\ dl[d].read = "record" /\ dl[d].format = "undefined"
    /\ dl[d].ticketId = <<"1">>
    /\ dl[d].suggested = <<"d", "/", "Z", "D", "-", "1", "_", "a">>

\* C19: when the settings read fails or finds no record, the decision goes
\* on under the default record (enabled, prefix_underscore): the failure
\* raises nothing in the handler, the main logic invokes the callback when it
\* returns, and a resolved ticket renames under the default template.
C19_SettingsFailureUsesDefaults ==
  \A d \in Downloads :
    dl[d].read \in {"error", "absent"}
      => ( /\ dl[d].enabled = "true" /\ dl[d].format = "prefix_underscore"
           /\ dl[d].pc = "threw" => dl[d].filename = Null
           /\ dl[d].pc = "returned" => (dl[d].called /\ dl[d].calls = 1)
           /\ ( /\ dl[d].pc = "returned" /\ ~dl[d].timedOut
                /\ Truthy(dl[d].ticketId)
                /\ ~HasRenamedShape(extractFilename(dl[d].filename)) )
                => dl[d].suggested =
                     RenamedPath(dl[d].filename, dl[d].ticketId, "prefix_underscore") )

\* after a failed settings read the main logic renamed the download under
\* the default template
C19_Witness ==
  \E d \in Downloads :
    /\ dl[d].read = "error" /\ dl[d].pc = "returned" /\ ~dl[d].timedOut
    /\ dl[d].ticketId = <<"2">>
    /\ dl[d].suggested = <<"d", "/", "Z", "D", "-", "2", "_", "a">>

\* C20: a stored record that lacks a field is read with the default of that
\* field: without enabled the download of a real tab is processed as an
\* enabled one (the Map or a collaborator is consulted), and without format
\* a resolved ticket renames under the default template.
C20_MissingFieldUsesDefault ==
  \A d \in Downloads :
    (dl[d].read = "record" /\ dl[d].pc = "returned" /\ dl[d].tabId \in Tabs)
      => ( /\ dl[d].enabled = "undefined" => (dl[d].queried \/ dl[d].via = "registry")
           /\ ( /\ dl[d].format = "undefined" /\ dl[d].enabled = "true"
                /\ ~dl[d].timedOut /\ Truthy(dl[d].ticketId)
                /\ ~HasRenamedShape(extractFilename(dl[d].filename)) )
                => dl[d].suggested =
                     RenamedPath(dl[d].filename, dl[d].ticketId, "prefix_underscore") )

\* C21: every entry of the Map holds a non-empty ticket string, never the
\* empty string, null or undefined, whatever notifications and responses
\* (null and empty ticket ids among them) arrive.
C21_EntriesNonEmpty ==
  \A t \in DOMAIN tabTicketMap :
    /\ tabTicketMap[t] # Null
    /\ tabTicketMap[t] # Fail
    /\ Len(tabTicketMap[t]) >= 1

\* the last notification of a tab carried an empty ticket id and the Map
\* has no entry for that tab, while it holds the ticket of another
C21_Witness ==
  \E t \in Tabs :
    /\ lastEvent[t] = [kind |-> "notify", ticketId |-> <<>>]
    /\ ~MapHas(tabTicketMap, t)
    /\ \E u \in Tabs \ {t} : MapHas(tabTicketMap, u)

AllDigits(s) == s # Null /\ Len(s) >= 1 /\ \A i \in 1..Len(s) : IsDigit(s[i])

\* C22: every ticket id stored in the Map or written into a suggested file
\* name is a string of digits, whatever a content script sends.
C22_TicketsNumeric ==
  /\ \A t \in DOMAIN tabTicketMap : AllDigits(tabTicketMap[t])
  /\ \A d \in Downloads : dl[d].suggested # Null => AllDigits(dl[d].ticketId)

\* the flow f has answered keep-original
KeepsOriginal(f) == f.pc = "returned" /\ f.called /\ f.suggested = Null

\* C23: a collaborator call of the resolution that yields no ticket, a
\* failed one included, leaves the Map as it is and does not end the
\* resolution by itself: the next strategy, or the next candidate tab in
\* enumeration order, is tried, and keep-original is answered only when
\* none is left.
C23_FailureContinuesChain ==
  [][\A d \in Downloads :
       ( /\ dl[d].pc \in {"directMsg", "activeQuery", "activeMsg", "allQuery", "candMsg"}
         /\ dl'[d] # dl[d]
         /\ dl'[d].timedOut = dl[d].timedOut
         /\ dl'[d].via = "none" )
       => ( /\ tabTicketMap' = tabTicketMap
            /\ ~Truthy(dl'[d].ticketId)
            /\ CASE dl[d].pc = "directMsg" ->
                     IF isZendeskUrl(dl[d].referrer) THEN dl'[d].pc = "activeQuery"
                     ELSE KeepsOriginal(dl'[d])
                 [] dl[d].pc = "activeQuery" ->
                     \/ dl'[d].pc = "activeMsg" /\ dl'[d].target \in Tabs
                     \/ dl'[d].pc = "allQuery"
                 [] dl[d].pc = "activeMsg" -> dl'[d].pc = "allQuery"
                 [] dl[d].pc = "allQuery" ->
                     \/ dl'[d].pc = "candMsg" /\ dl'[d].target = dl'[d].cands[1]
                     \/ KeepsOriginal(dl'[d])
                 [] dl[d].pc = "candMsg" ->
                     IF Len(dl[d].cands) > 1
                     THEN /\ dl'[d].pc = "candMsg"
                          /\ dl'[d].cands = Tail(dl[d].cands)
                          /\ dl'[d].target = dl[d].cands[2]
                     ELSE KeepsOriginal(dl'[d]) )]_vars

\* the message to the first candidate of the enumeration, a tab whose page
\* shows a ticket, failed, and the second candidate is being asked
C23_Witness ==
  \E d \in Downloads, t \in Tabs :
    /\ dl[d].pc = "candMsg" /\ Len(dl[d].cands) = 1
    /\ dl[d].target # t
    /\ HasContentScript(t) /\ Truthy(tabs[t].ticket)
    /\ HasContentScript(dl[d].target)
    /\ ~MapHas(tabTicketMap, t)

\* C24: after the worker has restarted, the Map eventually holds again the
\* ticket of each open ticket page, without the page's ticket changing and
\* without a download.
C24_ReannouncedAfterRestart ==
  \A t \in Tabs, k \in Tickets :
    (lastEvent[t].kind = "restart" /\ HasContentScript(t) /\ tabs[t].ticket = k)
      ~> ( \/ Lookup(tabTicketMap, t) = k
           \/ ~HasContentScript(t)
           \/ tabs[t].ticket # k )

\* C25: a download whose event was received has its completion callback
\* invoked eventually, also when the worker is terminated and restarted
\* before the terminal action.
C25_CompletedDespiteTermination ==
  \A d \in Downloads :
    (dl[d].pc \in {"getSettings", "directMsg", "activeQuery", "activeMsg",
                   "allQuery", "candMsg", "threw", "dead"} /\ ~dl[d].called)
      ~> dl[d].called

\* the resolution of download d has just ended without a ticket (the
\* download enabled and not turned away before the resolver)
ResolvedNothing(d) ==
  /\ dl[d].pc \notin {"idle", "returned", "threw", "dead"}
  /\ dl'[d].pc = "returned"
  /\ dl'[d].enabled = "true"
  /\ ~NotFromZendesk(dl[d].referrer, dl[d].tabId)
  /\ ~Truthy(dl'[d].ticketId)

\* C26 as stated: whenever the steps before it left the ticket unresolved,
\* the tabs matching the pattern are enumerated before the resolver gives
\* null, also under a referrer outside the recognized domains.
C26_EnumerationBeforeNull ==
  [][\A d \in Downloads :
       ResolvedNothing(d) => dl[d].pc \in {"allQuery", "candMsg"}]_vars

\* C26 amended: under a referrer in the recognized domains the tabs matching
\* the pattern are enumerated before the resolver gives null; under any
\* other referrer neither the active tab nor the enumeration is asked.
C26_EnumerationUnderZendeskReferrer ==
  [][\A d \in Downloads :
       /\ ResolvedNothing(d)
            => IF isZendeskUrl(dl[d].referrer)
               THEN dl[d].pc \in {"allQuery", "candMsg"}
               ELSE dl[d].pc \in {"getSettings", "directMsg"}
       /\ dl'[d].pc \in {"activeQuery", "activeMsg", "allQuery", "candMsg"}
            => isZendeskUrl(dl'[d].referrer)]_vars

\* the direct query and the active tab gave nothing for a download of a real
\* tab under a Zendesk referrer, and both enumerated tabs are being asked
C26_Witness ==
  \E d \in Downloads :
    /\ dl[d].pc = "candMsg" /\ Len(dl[d].cands) = 2
    /\ dl[d].tabId \in Tabs /\ isZendeskUrl(dl[d].referrer)
    /\ ~Truthy(dl[d].ticketId)

\* C27: in method 2 the first tab of the enumeration that has a Map entry
\* supplies the ticket and no message is sent; when none has, the
\* candidates are asked one at a time in enumeration order, the first
\* non-empty answer is used and stored under the answering tab, and no
\* later candidate is asked.
C27_EnumerationOrder ==
  [][\A d \in Downloads :
       /\ (dl[d].pc = "allQuery" /\ dl'[d].pc \notin {"allQuery", "dead"})
            => LET L == dl'[d].listed
                   cached == {i \in 1..Len(L) : MapHas(tabTicketMap, L[i])}
               IN  /\ tabTicketMap' = tabTicketMap
                   /\ IF cached # {}
                      THEN /\ dl'[d].pc \in {"returned", "threw"}
                           /\ dl'[d].via = "enumeration"
                           /\ \E i \in cached :
                                /\ \A j \in cached : i <= j
                                /\ dl'[d].src = L[i]
                                /\ dl'[d].ticketId = tabTicketMap[L[i]]
                      ELSE IF L = <<>> THEN KeepsOriginal(dl'[d])
                      ELSE /\ dl'[d].pc = "candMsg"
                           /\ dl'[d].cands = L
                           /\ dl'[d].target = L[1]
       /\ (dl[d].pc = "candMsg" /\ dl'[d] # dl[d] /\ dl'[d].pc # "dead"
              /\ dl'[d].timedOut = dl[d].timedOut)
            => /\ dl[d].target = dl[d].cands[1]
               /\ \E k \in 1..Len(dl[d].listed) :
                    dl[d].cands = SubSeq(dl[d].listed, k, Len(dl[d].listed))
               /\ IF dl'[d].via = "enumeration"
                  THEN /\ Truthy(dl[d].snap)
                       /\ dl'[d].ticketId = dl[d].snap
                       /\ dl'[d].src = dl[d].target
                       /\ dl'[d].pc \in {"returned", "threw"}
                       /\ Lookup(tabTicketMap', dl[d].target) = dl[d].snap
                       /\ \A t \in Tabs \ {dl[d].target} :
                            Lookup(tabTicketMap', t) = Lookup(tabTicketMap, t)
                  ELSE /\ tabTicketMap' = tabTicketMap
                       /\ IF Len(dl[d].cands) > 1
                          THEN dl'[d].pc = "candMsg" /\ dl'[d].target = dl[d].cands[2]
                          ELSE KeepsOriginal(dl'[d])]_vars

\* both enumerated tabs had Map entries with different tickets and the
\* download was renamed with the ticket of the first one
C27_Witness ==
  \E d \in Downloads :
    /\ dl[d].pc = "returned" /\ ~dl[d].timedOut /\ dl[d].via = "enumeration"
    /\ Len(dl[d].listed) = 2
    /\ MapHas(tabTicketMap, dl[d].listed[1]) /\ MapHas(tabTicketMap, dl[d].listed[2])
    /\ tabTicketMap[dl[d].listed[1]] # tabTicketMap[dl[d].listed[2]]
    /\ dl[d].src = dl[d].listed[1]
    /\ dl[d].suggested = RenamedPath(dl[d].filename, tabTicketMap[dl[d].src], dl[d].format)

\* C28: the active tab supplies the ticket only when the ticket is still
\* unresolved, the referrer is a Zendesk URL and the active tab's URL is
\* one: a Map entry of the active tab is used without a message to the tab;
\* without an entry GET_TICKET is sent and a non-empty answer is stored
\* under the active tab's id.
C28_ActiveTabStep ==
  [][\A d \in Downloads :
       /\ dl'[d].pc \in {"activeQuery", "activeMsg"}
            => (~Truthy(dl'[d].ticketId) /\ isZendeskUrl(dl'[d].referrer))
       /\ (dl[d].pc = "activeQuery" /\ dl'[d].pc \notin {"activeQuery", "dead"})
            => /\ tabTicketMap' = tabTicketMap
               /\ IF dl'[d].via = "active"
                  THEN /\ dl'[d].pc \in {"returned", "threw"}
                       /\ dl'[d].src \in Tabs
                       /\ isZendeskUrl(tabs[dl'[d].src].url)
                       /\ MapHas(tabTicketMap, dl'[d].src)
                       /\ dl'[d].ticketId = tabTicketMap[dl'[d].src]
                  ELSE IF dl'[d].pc = "activeMsg"
                  THEN /\ dl'[d].target \in Tabs
                       /\ isZendeskUrl(tabs[dl'[d].target].url)
                       /\ ~MapHas(tabTicketMap, dl'[d].target)
                  ELSE dl'[d].pc = "allQuery" /\ ~Truthy(dl'[d].ticketId)
       /\ (dl[d].pc = "activeMsg" /\ dl'[d].pc \notin {"activeMsg", "dead"})
            => IF dl'[d].via = "active"
               THEN /\ Truthy(dl[d].snap)
                    /\ dl'[d].ticketId = dl[d].snap
                    /\ dl'[d].src = dl[d].target
                    /\ Lookup(tabTicketMap', dl[d].target) = dl[d].snap
                    /\ \A t \in Tabs \ {dl[d].target} :
                         Lookup(tabTicketMap', t) = Lookup(tabTicketMap, t)
               ELSE /\ tabTicketMap' = tabTicketMap
                    /\ dl'[d].pc = "allQuery"]_vars

\* a download that carries no tab was renamed with the ticket of the active
\* Zendesk tab, which the Map holds for that tab
C28_Witness ==
  \E d \in Downloads :
    /\ dl[d].pc = "returned" /\ ~dl[d].timedOut /\ dl[d].via = "active"
    /\ dl[d].tabId = -1 /\ isZendeskUrl(dl[d].referrer)
    /\ dl[d].src \in Tabs /\ isZendeskUrl(tabs[dl[d].src].url)
    /\ Lookup(tabTicketMap, dl[d].src) = dl[d].ticketId
    /\ dl[d].suggested = RenamedPath(dl[d].filename, dl[d].ticketId, dl[d].format)

\* download d has a GET_TICKET pending at tab t, whose answer was taken before
\* the page of t changed; the notification of that change has been applied
Overtaken(d, t) ==
  /\ dl[d].pc \in {"directMsg", "activeMsg", "candMsg"}
  /\ dl[d].target = t
  /\ dl[d].snap # Fail
  /\ lastEvent[t].kind = "notify"
  /\ lastEvent[t].ticketId = tabs[t].ticket
  /\ tabs[t].ticket # dl[d].snap

\* C29: when a notification for tab t was applied while a query to t was
\* pending, the Map entry of t after the response has been processed is the
\* one the notification left, not the older value of the response.
C29_CacheFillKeepsFresherState ==
  [][\A d \in Downloads, t \in Tabs :
       (Overtaken(d, t) /\ (dl'[d].pc # dl[d].pc \/ dl'[d].target # t))
         => Lookup(tabTicketMap', t) = Expected(lastEvent[t])]_vars

\* C30: once the close of tab t has been handled the Map holds no entry for
\* t, in every interleaving with the download flows.
C30_ClosedTabHasNoEntry ==
  \A t \in Tabs : lastEvent[t].kind = "closed" => ~MapHas(tabTicketMap, t)

\* the step is a ticket notification of tab t, its close, or its leaving the
\* recognized domains
ActsOn(t) ==
  \/ /\ tabs'[t].ticket # tabs[t].ticket
     /\ lastEvent'[t] = [kind |-> "notify", ticketId |-> tabs'[t].ticket]
  \/ tabs[t].open /\ ~tabs'[t].open
  \/ tabs'[t].open /\ tabs'[t].url # tabs[t].url /\ ~isZendeskUrl(tabs'[t].url)

\* C31: a lifecycle event changes the Map entry of its own tab at most, and
\* only a ticket notification with a sender tab, a close, or a URL change
\* to a URL outside the recognized domains changes any: a notification
\* without a sender tab, an update without a URL and an update to a Zendesk
\* URL leave the Map as it is.
C31_LifecycleFrame ==
  [][\A t \in Tabs :
       Lookup(tabTicketMap', t) # Lookup(tabTicketMap, t)
         => ( /\ ActsOn(t)
              /\ Lookup(tabTicketMap', t) = Expected(lastEvent'[t])
              /\ \A u \in Tabs \ {t} :
                   /\ Lookup(tabTicketMap', u) = Lookup(tabTicketMap, u)
                   /\ tabs'[u] = tabs[u] )]_vars

\* a tab was loaded anew on a Zendesk URL, its page showing no ticket yet,
\* and the entry it had is still in the Map, as is the other tab's
C31_Witness ==
  \E t \in Tabs :
    /\ tabs[t].open /\ isZendeskUrl(tabs[t].url) /\ tabs[t].ticket = Null
    /\ lastEvent[t].kind = "notify" /\ Truthy(lastEvent[t].ticketId)
    /\ Lookup(tabTicketMap, t) = lastEvent[t].ticketId
    /\ \E u \in Tabs \ {t} : MapHas(tabTicketMap, u)

\* the step is the cache-fill of flow d: its live query of tab dl[d].target
\* answers with a non-empty ticket, which is stored under that tab
CacheFill(d) ==
  /\ dl[d].pc \in {"directMsg", "activeMsg", "candMsg"}
  /\ dl[d].queried
  /\ dl[d].target \in Tabs
  /\ Answered(dl[d].snap)
  /\ dl'[d].ticketId = dl[d].snap
  /\ tabTicketMap' = MapSet(tabTicketMap, dl[d].target, dl[d].snap)

\* the settings read of flow d completes and the flow finds renaming
\* disabled, fails the referrer-and-tab guard, or finds its tab in the Map
EndsEarly(d) ==
  /\ dl[d].pc = "getSettings"
  /\ dl'[d].pc # "getSettings"
  /\ \/ Disabled([enabled |-> dl'[d].enabled])
     \/ NotFromZendesk(dl[d].referrer, dl[d].tabId)
     \/ RealTab(dl[d].tabId) /\ MapHas(tabTicketMap, dl[d].tabId)

\* C32: a step of a download flow leaves the Map as it is or is the
\* cache-fill of a live query that answered with a non-empty ticket; no step
\* removes an entry; and a flow that ends at the disabled check, at the
\* referrer-and-tab guard or by a Map hit has issued no query and leaves the
\* Map unchanged.
C32_FlowOnlyCacheFills ==
  [][ /\ tabTicketMap' # tabTicketMap => \E d \in Downloads : CacheFill(d)
      /\ DOMAIN tabTicketMap \subseteq DOMAIN tabTicketMap'
      /\ \A d \in Downloads :
           EndsEarly(d) => ( /\ dl'[d].pc \in {"returned", "threw"}
                             /\ ~dl'[d].queried
                             /\ tabTicketMap' = tabTicketMap ) ]_vars

\* the active tab answered a live query and its ticket was stored next to
\* the entry the Map already held for the other tab
C32_Witness ==
  \E d \in Downloads :
    /\ dl[d].pc = "returned" /\ dl[d].via = "active" /\ dl[d].queried
    /\ dl[d].src \in Tabs
    /\ Lookup(tabTicketMap, dl[d].src) = dl[d].ticketId
    /\ \E u \in Tabs \ {dl[d].src} : MapHas(tabTicketMap, u)

SeparatorFree(s) == \A i \in 1..Len(s) : s[i] \notin {"/", "\\"}

\* C36: reconstructPath of a path and its own base name is the path;
\* extractFilename of a reconstructed path is the new name when the new name
\* holds no separator; and the base name is the separator-free end of the
\* path that follows its last '/' or '\', the whole path when it has none.
C36_BaseNameRoundTrip ==
  /\ fmt.phase = "back" =>
       LET p == fmt.path
           b == fmt.base
       IN  /\ fmt.out = p
           /\ SeparatorFree(b)
           /\ Len(b) <= Len(p)
           /\ SubSeq(p, Len(p) - Len(b) + 1, Len(p)) = b
           /\ Len(b) < Len(p) => p[Len(p) - Len(b)] \in {"/", "\\"}
           /\ SeparatorFree(p) => b = p
  /\ (fmt.phase = "again" /\ SeparatorFree(fmt.newName)) => fmt.base = fmt.newName

\* a new name was put behind a directory that ends in a backslash and came
\* back as the base name of the result
C36_Witness ==
  /\ fmt.phase = "again"
  /\ fmt.path = <<"a", "\\", "a">>
  /\ fmt.newName = <<"n">>
  /\ fmt.out = <<"a", "\\", "n">>
  /\ fmt.base = <<"n">>

\* C34: a TICKET_UPDATE of the content script of tab t carries what the page
\* shows, which differs from lastKnownTicketId as it was before the attempt
\* (null in a page just loaded), and becomes lastKnownTicketId; and
\* lastKnownTicketId changes in no other way than by such an attempt or by
\* the page being loaded anew or closed, which leaves it null.
C34_NotifyOnlyOnChange ==
  [][\A t \in Tabs :
       /\ ( lastEvent'[t] # lastEvent[t] /\ lastEvent'[t].kind = "notify" )
            => ( /\ lastEvent'[t].ticketId = tabs[t].ticket
                 /\ lastEvent'[t].ticketId # tabs[t].last
                 /\ tabs'[t].last = lastEvent'[t].ticketId )
       /\ tabs'[t].last # tabs[t].last
            => \/ lastEvent'[t] = [kind |-> "notify", ticketId |-> tabs'[t].last]
               \/ ( /\ tabs'[t].last = Null /\ tabs'[t].ticket = Null
                    /\ lastEvent'[t] = lastEvent[t] \/ ~HasContentScript(t)' )]_vars

\* after a worker restart the content script of a ticket page stays silent:
\* its page shows what it announced last, while the Map has lost the entry
C34_Witness ==
  \E t \in Tabs :
    /\ HasContentScript(t)
    /\ lastEvent[t].kind = "restart"
    /\ Truthy(tabs[t].ticket) /\ tabs[t].ticket = tabs[t].last
    /\ ~MapHas(tabTicketMap, t)
    /\ ~ENABLED Notify(t)

\* what each template puts in front of the original name
TemplatePrefix(format, ticket) ==
  CASE format = "prefix_underscore" -> <<"Z", "D", "-">> \o ticket \o <<"_">>
    [] format = "bracket" -> <<"[">> \o ticket \o <<"]", " ">>
    [] format = "minimal" -> ticket \o <<"-">>

\* C35: however often a link is clicked its download attribute is rewritten
\* at most once; a rewritten attribute begins with the prefix of the
\* selected template and passes the already-renamed check; and the attribute
\* is as the page made it when renaming is disabled, the link's host is not
\* a Zendesk download host, or the page URL yields no ticket.
C35_FirefoxClickRenamesOnce ==
  fmt.phase = "link" =>
    /\ fmt.writes <= 1
    /\ fmt.writes = 0 => fmt.download = fmt.orig
    /\ (fmt.writes = 1 /\ fmt.format \in KnownFormats)
         => ( /\ StartsWith(fmt.download, TemplatePrefix(fmt.format, fmt.ticket))
              /\ startsRenamed(fmt.download) )
    /\ ( \/ fmt.enabled # "true"
         \/ ~isZendeskDownloadUrl(fmt.host)
         \/ fmt.ticket = Null )
         => (fmt.writes = 0 /\ fmt.download = fmt.orig)

\* a link without a download attribute was clicked twice under the minimal
\* template and carries the ticket in front of its URL name once
C35_Witness ==
  /\ fmt.phase = "link"
  /\ fmt.clicks = 2 /\ fmt.writes = 1
  /\ fmt.format = "minimal" /\ fmt.orig = <<>>
  /\ fmt.urlName = <<"a">>
  /\ fmt.download = <<"2", "-", "a">>

\* the state of the closure createSafeSuggest made for a download event
Closure(f) == <<f.called, f.timer, f.calls, f.suggested, f.timedOut>>

\* C33: a step of one download event (its timer expiring, its main logic
\* resuming or completing) leaves the latch, the timer and the callback of
\* every other download event as they were; and every download event whose
\* main logic has completed had its own callback invoked exactly once,
\* whatever the other events' timers and main logic did meanwhile.
C33_OverlappingIndependent ==
  [][\A d \in Overlapping :
       /\ dl'[d] # dl[d]
            => \A e \in Overlapping \ {d} : Closure(dl'[e]) = Closure(dl[e])
       /\ dl'[d].pc = "returned"
            => ( /\ dl'[d].called /\ dl'[d].calls = 1
                 /\ ~dl'[d].timedOut => ~dl'[d].timer )]_vars

\* one download's callback was invoked by its timer while its main logic is
\* still suspended, and another download, received meanwhile, has completed
\* on its own with a renamed path
C33_Witness ==
  \E d, e \in Overlapping :
    /\ d # e
    /\ dl[d].timedOut /\ dl[d].calls = 1
    /\ dl[d].pc \in {"getSettings", "directMsg", "activeQuery", "activeMsg", "allQuery", "candMsg"}
    /\ dl[e].pc = "returned" /\ ~dl[e].timedOut /\ dl[e].calls = 1
    /\ dl[e].suggested # Null

\* the settings the stored record stands for
Effective(stored) == loadSettings(stored, TRUE)

\* C37: while no storage operation fails, the write of a handler of the
\* toggle leaves the stored format as it was and the write of a handler of
\* the format select leaves the stored enabled flag as it was, also for a
\* change handled before the initial settings read has completed; and once
\* initialization has finished and no handler waits, the two controls show
\* the stored record.
C37_PopupChangesIndependent ==
  [][(fmt.phase = "popup" /\ ~fmt'.failed) =>
       /\ (fmt'.saves # fmt.saves /\ fmt'.stored # fmt.stored /\ fmt'.applied = "toggle")
            => Effective(fmt'.stored).format = Effective(fmt.stored).format
       /\ (fmt'.saves # fmt.saves /\ fmt'.stored # fmt.stored /\ fmt'.applied = "format")
            => Effective(fmt'.stored).enabled = Effective(fmt.stored).enabled
       /\ (fmt'.load = "done" /\ fmt'.saves = <<>>)
            => getSettingsFromUI(fmt') = Effective(fmt'.stored)]_vars
====
